---- MODULE Spec2Model ----
(***************************************************************************)
(* galileo: the vector tile loaders (WebVtLoader, DynamicUrlVtLoader) of   *)
(* layer/vector_tile_layer/tile_provider/loader.rs as a state machine.     *)
(* Strings are sequences of one-character strings, so that the URL         *)
(* templating is computed the way the code computes it.                    *)
(***************************************************************************)
EXTENDS Integers, Sequences, FiniteSets, TLC

\* ------------------------------------------------------------------ bounds

\* Total number of calls of the loader's API (load and the mutators
\* update_*, add_*, remove_*, clear_*) started over a behaviour.
MaxCalls == 3
\* add_parameter is not called on a list that already has this many entries.
MaxParams == 2

\* ----------------------------------------------------------------- strings

None == "None"

Digits == <<"0", "1", "2", "3", "4", "5", "6", "7", "8", "9">>

RECURSIVE NatToString(_)
\* u32/i32 Display for a non-negative value: decimal, no leading zeros.
NatToString(n) ==
    IF n < 10 THEN <<Digits[n + 1]>>
    ELSE NatToString(n \div 10) \o <<Digits[(n % 10) + 1]>>

\* i32 Display: a leading '-' for negative values.
IntToString(n) == IF n < 0 THEN <<"-">> \o NatToString(0 - n) ELSE NatToString(n)

\* Variant of Replace: only the first match becomes rep (str::replacen(.., 1)).
ReplaceFirst(s, pat, rep) ==
    LET hits == {i \in 1..(Len(s) - Len(pat) + 1) :
                    SubSeq(s, i, i + Len(pat) - 1) = pat}
    IN IF hits = {} THEN s
       ELSE LET i == CHOOSE h \in hits : \A g \in hits : h <= g
            IN SubSeq(s, 1, i - 1) \o rep \o SubSeq(s, i + Len(pat), Len(s))

RECURSIVE Replace(_, _, _)
\* str::replace: every non-overlapping match of pat, left to right, becomes rep;
\* the replacement text is not scanned again.
Replace(s, pat, rep) ==
    IF Len(s) < Len(pat) THEN s
    ELSE IF SubSeq(s, 1, Len(pat)) = pat
         THEN rep \o Replace(SubSeq(s, Len(pat) + 1, Len(s)), pat, rep)
         ELSE <<s[1]>> \o Replace(Tail(s), pat, rep)

\* Characters urlencoding::encode leaves alone (the part of the unreserved set
\* the model's alphabet uses).
Unreserved ==
    {"a", "b", "k", "q", "t", "v", "x", "y", "z", "F", "-", "_", ".", "~"}
        \cup {Digits[i] : i \in 1..10}

\* The %XX form of each UTF-8 byte of the other characters of the model's
\* alphabet; "e-acute" stands for the one character U+00E9.
PercentOf(c) ==
    CASE c = " " -> <<"%", "2", "0">>
      [] c = "e-acute" -> <<"%", "C", "3", "%", "A", "9">>
      [] c = "%" -> <<"%", "2", "5">>
      [] c = "&" -> <<"%", "2", "6">>
      [] c = "/" -> <<"%", "2", "F">>
      [] c = "=" -> <<"%", "3", "D">>
      [] c = "?" -> <<"%", "3", "F">>
      [] c = "{" -> <<"%", "7", "B">>
      [] c = "}" -> <<"%", "7", "D">>

\* Variant of Encode: the text is used as it is.
EncodeLiteral(s) == s

RECURSIVE Encode(_)
\* urlencoding::encode
Encode(s) ==
    IF s = <<>> THEN <<>>
    ELSE (IF s[1] \in Unreserved THEN <<s[1]>> ELSE PercentOf(s[1]))
             \o Encode(Tail(s))

RECURSIVE Join(_, _)
\* [String]::join(sep)
Join(parts, sep) ==
    IF parts = <<>> THEN <<>>
    ELSE IF Len(parts) = 1 THEN parts[1]
    ELSE parts[1] \o sep \o Join(Tail(parts), sep)

\* format!("{}={}", encode(k), encode(v))
FormatPair(p) == Encode(p[1]) \o <<"=">> \o Encode(p[2])

\* The query string of generate_url.
QueryString(params) ==
    Join([i \in 1..Len(params) |-> FormatPair(params[i])], <<"&">>)

\* The three chained replace calls of generate_url.
Substitute(template, index) ==
    Replace(Replace(Replace(template, <<"{", "z", "}">>, IntToString(index.z)),
                    <<"{", "x", "}">>, IntToString(index.x)),
            <<"{", "y", "}">>, IntToString(index.y))

\* Variant of GenerateUrl: the "?" is pushed whether or not there are parameters.
GenerateUrlBareQuery(template, params, index) ==
    Substitute(template, index) \o <<"?">> \o QueryString(params)

\* generate_url on the values the two read guards give.
GenerateUrl(template, params, index) ==
    IF params # <<>>
    THEN Substitute(template, index) \o <<"?">> \o QueryString(params)
    ELSE Substitute(template, index)

\* ------------------------------------------------------------- input sets

\* "{z}/{x}/{y}"
T0 == <<"{", "z", "}", "/", "{", "x", "}", "/", "{", "y", "}">>
\* "t/{z}/{x}/{y}"
T1 == <<"t", "/">> \o T0
Templates == {T0, T1}

\* The tile index the loads ask for (z, x, y).
Indices == {[z |-> 2, x |-> 3, y |-> 10]}

\* (key, value) pairs handed to add_parameter / update_parameters.
P1 == <<(<<"k">>), (<<"v">>)>>
P2 == <<(<<"k">>), (<<"a", "&", "b">>)>>
ParamPool == {P2}
Keys == {<<"k">>}
UpdateLists == {<<P1, P2>>}

\* Raw tile payloads: "pbf" is a well-formed vector tile, "junk" is not.
Payloads == {"pbf", "junk"}
\* GalileoError values load_bytes_from_url can fail with.
FetchErrors == {"NotFound", "IO", "Generic"}

Tasks == {"t1", "t2"}

\* ------------------------------------------------------------------ state

VARIABLES
    kind,            \* "web": WebVtLoader, "dyn": DynamicUrlVtLoader
    offline_mode,    \* the loader's offline_mode field
    cache,           \* the loader's cache field: [on, store]
    url_template,    \* DynamicUrlVtLoader.url_template (value behind the RwLock)
    parameters,      \* DynamicUrlVtLoader.parameters (value behind the RwLock)
    tmplLock,        \* RwLock state of url_template: [readers, writer]
    paramsLock,      \* RwLock state of parameters: [readers, writer]
    tmplCommitted,   \* ghost: url_template as left by the last completed call
    paramsCommitted, \* ghost: parameters as left by the last completed call
    mut,             \* the thread calling the mutators: [pc, op, arg]
    task,            \* the load calls in progress, one per task
    fetchCalls,      \* ghost: {<<url, n>>}: load_bytes_from_url was called n times
    hitFetches,      \* ghost: fetch calls made by a load whose lookup gave bytes
    apiCalls,        \* number of API calls started
    bundle,          \* a RenderBundle: [world_set, screen_sets]
    call,            \* ghost: the last call made on the bundle
    finalized        \* the bundle was handed off to the renderer

vars == <<kind, offline_mode, cache, url_template, parameters, tmplLock,
          paramsLock, tmplCommitted, paramsCommitted, mut, task, fetchCalls,
          hitFetches, apiCalls, bundle, call, finalized>>

\* ---------------------------------------------------------------- helpers

\* The url_source closure of a WebVtLoader: a fixed function of the index.
UrlSource(index) == Substitute(T0, index)

\* MvtTile::decode: pure; succeeds on a well-formed payload only.
Decode(bytes) == IF bytes = "pbf" THEN "ok" ELSE "err"

Ok(bytes) == [tag |-> "Ok", tile |-> bytes]
Err(e) == [tag |-> e, tile |-> None]
NoResult == [tag |-> None, tile |-> None]

\* Variant of DecodeResult: a payload that fails to decode still gives a tile.
DecodeResultLenient(bytes) == Ok(bytes)

\* load, after load_raw returned Ok(bytes): decode and map the decode error.
DecodeResult(bytes) ==
    IF Decode(bytes) = "ok" THEN Ok(bytes) ELSE Err("Decoding")

\* Variant of MapFetchError: every fetch failure is reported as Network.
MapFetchErrorAllNetwork(err) == Err("Network")

\* The map_err closure of load_raw.
MapFetchError(err) ==
    IF err = "NotFound" THEN Err("DoesNotExist") ELSE Err("Network")

\* Variant of IsHit: cached bytes are never used without a fetch.
IsHitNever(got) == FALSE

\* `if let Some(data) = ...get(url)`: the lookup gave bytes.
IsHit(got) == got # None

\* Variant of OfflineShortCircuit: the offline flag is not consulted.
OfflineIgnored == FALSE

\* Variant of OfflineShortCircuit: every miss is treated as an offline miss.
OfflineAlways == TRUE

\* `if self.offline_mode` after a miss.
OfflineShortCircuit == offline_mode

\* Variant of AfterWriteBack: a failed insert fails the load.
AfterWriteBackPropagates(bytes, ins) ==
    IF ins = "Err" THEN Err("Network") ELSE Ok(bytes)

\* What load_raw returns after the write-back: Ok(bytes), whatever insert gave.
AfterWriteBack(bytes, ins) == Ok(bytes)

\* Variant of WriteBackKey: the URL is generated again at the write-back.
WriteBackKeyRegenerated(t) ==
    GenerateUrl(url_template, parameters, task[t].idx)

\* The key of the cache write-back of task t: the url argument of load_raw.
WriteBackKey(t) == task[t].url

\* Variant of AfterError: the load starts over after a failure.
RetryAfterError == "load_raw"

\* Where a load goes after load_raw returned an error: it returns (`?`).
AfterError == "done"

StoreGet(store, url) ==
    IF \E e \in store : e[1] = url
    THEN (CHOOSE e \in store : e[1] = url)[2]
    ELSE None

StorePut(store, url, bytes) ==
    {e \in store : e[1] # url} \cup {<<url, bytes>>}

\* What cache.get(url) can return: the stored bytes, or None (absent key, or a
\* lookup the controller failed to serve).
CacheGet(url) == {StoreGet(cache.store, url), None}

\* self.cache.as_ref().and_then(|cache| cache.get(url))
CacheLookup(url) == IF cache.on THEN CacheGet(url) ELSE {None}

CallsOf(calls, url) ==
    IF \E e \in calls : e[1] = url
    THEN (CHOOSE e \in calls : e[1] = url)[2]
    ELSE 0

FetchCount(url) == CallsOf(fetchCalls, url)

\* Variant of CountFetch: a load joins a fetch of the same URL already in flight.
CountFetchCoalesced(calls, url) ==
    IF \E s \in Tasks : task[s].pc = "fetching" /\ task[s].url = url
    THEN calls
    ELSE StorePut(calls, url, CallsOf(calls, url) + 1)

\* load_bytes_from_url(url) is called once more.
CountFetch(calls, url) == StorePut(calls, url, CallsOf(calls, url) + 1)

IdleTask ==
    [pc |-> "idle", idx |-> CHOOSE i \in Indices : TRUE, url |-> <<>>,
     tmplSnap |-> <<>>, paramsSnap |-> <<>>, tmplStable |-> <<>>,
     paramsStable |-> <<>>, got |-> None, fetched |-> None, ins |-> None,
     cfgMoved |-> FALSE, result |-> NoResult, log |-> <<>>, seenBad |-> {},
     cfgAtBegin |-> <<>>]

Free == [readers |-> {}, writer |-> FALSE]

\* Variant of CanRead: the reader does not wait for the writer.
CanReadUnguarded(lock) == TRUE

\* RwLock::read succeeds: no writer holds the lock.
CanRead(lock) == ~lock.writer

\* Variant of AcquireRead: the guard is a temporary, dropped as soon as the
\* field has been looked at.
AcquireReadTemporary(lock, t) == lock

\* RwLock::read returns a guard to task t, which keeps it.
AcquireRead(lock, t) == [lock EXCEPT !.readers = @ \cup {t}]

\* Variant of ReleaseRead: the guard lives on after generate_url has returned.
ReleaseReadLate(lock, t) == lock

\* A read guard of task t is dropped.
ReleaseRead(lock, t) == [lock EXCEPT !.readers = @ \ {t}]

\* RwLock::write succeeds: nobody holds the lock.
CanWrite(lock) == ~lock.writer /\ lock.readers = {}

\* The task slots are interchangeable: a new load call takes the first slot that
\* holds no call in progress.
FreeSlot(t) ==
    /\ task[t].pc \in {"idle", "done"}
    /\ t = "t2" => task["t1"].pc \notin {"idle", "done"}

IdleMut == [pc |-> "idle", op |-> None, tmpl |-> <<>>, list |-> <<>>,
            pair |-> P1, key |-> <<>>]

\* ----------------------------------------------------------- render bundle

\* WorldRenderSet::default(): one collection per primitive kind, in the order
\* of submission.
EmptyWorldSet ==
    [points |-> <<>>, lines |-> <<>>, polygons |-> <<>>, images |-> <<>>,
     labels |-> <<>>]

\* RenderBundle::default()
EmptyBundle == [world_set |-> EmptyWorldSet, screen_sets |-> <<>>]

\* No call was made on the bundle yet.
NoCall == [op |-> None, arg |-> None, before |-> EmptyBundle, n |-> 0]

\* ------------------------------------------------------------------- Init

\* The URL the pre-populated cache entries of Init are stored under.
SeedUrl == UrlSource(CHOOSE i \in Indices : TRUE)

Init ==
    /\ kind \in {"web", "dyn"}
    /\ offline_mode \in BOOLEAN
    /\ cache \in {[on |-> FALSE, store |-> {}], [on |-> TRUE, store |-> {}],
                  [on |-> TRUE, store |-> {<<SeedUrl, "pbf">>}]}
    /\ url_template = T0
    /\ parameters = <<>>
    /\ tmplLock = Free
    /\ paramsLock = Free
    /\ tmplCommitted = T0
    /\ paramsCommitted = <<>>
    /\ mut = IdleMut
    /\ task = [t \in Tasks |-> IdleTask]
    /\ fetchCalls = {}
    /\ hitFetches = 0
    /\ apiCalls = 0
    /\ bundle = EmptyBundle
    /\ call = NoCall
    /\ finalized = FALSE

\* ------------------------------------------------------------------ loads

\* ghost: the (URL, payload) pairs that loads which have returned Decoding wrote
\* back, together with the pairs those loads were called after.
BadWritten ==
    {<<task[t].url, task[t].fetched>> :
         t \in {x \in Tasks : /\ task[x].pc = "done"
                              /\ task[x].ins = "Ok"
                              /\ task[x].result = Err("Decoding")}}
        \cup UNION {task[t].seenBad : t \in Tasks}


\* WebVtLoader::load up to the call of load_raw: url = (self.url_source)(&index).
WebLoadBegin(t, i) ==
    /\ kind = "web"
    /\ FreeSlot(t)
    /\ apiCalls < MaxCalls
    /\ apiCalls' = apiCalls + 1
    /\ task' = [task EXCEPT ![t] =
                    [IdleTask EXCEPT !.pc = "load_raw", !.idx = i,
                                     !.url = UrlSource(i),
                                     !.seenBad = BadWritten]]
    /\ UNCHANGED <<bundle, call, finalized, kind, offline_mode, cache,
                   url_template, parameters, tmplLock, paramsLock,
                   tmplCommitted, paramsCommitted, mut, fetchCalls,
                   hitFetches>>

\* DynamicUrlVtLoader::load enters generate_url: self.url_template.read().
DynLoadBegin(t, i) ==
    /\ kind = "dyn"
    /\ FreeSlot(t)
    /\ apiCalls < MaxCalls
    /\ CanRead(tmplLock)
    /\ apiCalls' = apiCalls + 1
    /\ tmplLock' = AcquireRead(tmplLock, t)
    /\ task' = [task EXCEPT ![t] =
                    [IdleTask EXCEPT !.pc = "gen_params", !.idx = i,
                                     !.seenBad = BadWritten,
                                     !.cfgAtBegin = <<url_template,
                                                      parameters>>]]
    /\ UNCHANGED <<bundle, call, finalized, kind, offline_mode, cache,
                   url_template, parameters, paramsLock, tmplCommitted,
                   paramsCommitted, mut, fetchCalls, hitFetches>>

\* generate_url: self.parameters.read().
GenAcquireParams(t) ==
    /\ task[t].pc = "gen_params"
    /\ CanRead(paramsLock)
    /\ paramsLock' = AcquireRead(paramsLock, t)
    /\ task' = [task EXCEPT ![t].pc = "gen_build"]
    /\ UNCHANGED <<bundle, call, finalized, kind, offline_mode, cache,
                   url_template, parameters, tmplLock, tmplCommitted,
                   paramsCommitted, mut, fetchCalls, hitFetches, apiCalls>>

\* generate_url: build the URL from what the guards give, drop both guards.
GenBuild(t) ==
    /\ task[t].pc = "gen_build"
    /\ task' = [task EXCEPT ![t] =
                    [@ EXCEPT !.pc = "load_raw",
                              !.url = GenerateUrl(url_template, parameters,
                                                 task[t].idx),
                              !.tmplSnap = url_template,
                              !.paramsSnap = parameters,
                              !.tmplStable = tmplCommitted,
                              !.paramsStable = paramsCommitted]]
    /\ tmplLock' = ReleaseRead(tmplLock, t)
    /\ paramsLock' = ReleaseRead(paramsLock, t)
    /\ UNCHANGED <<bundle, call, finalized, kind, offline_mode, cache,
                   url_template, parameters, tmplCommitted, paramsCommitted,
                   mut, fetchCalls, hitFetches, apiCalls>>

\* load_raw up to its first suspension or return: the cache lookup, the offline
\* check and the call of load_bytes_from_url; on a hit, load goes on to decode.
LoadRawLookup(t) ==
    /\ task[t].pc = "load_raw"
    /\ \E got \in CacheLookup(task[t].url) :
         LET u == task[t].url
             l0 == IF cache.on THEN Append(task[t].log, <<"get", u>>)
                   ELSE task[t].log
         IN IF IsHit(got)
            THEN /\ task' = [task EXCEPT ![t] =
                                [@ EXCEPT !.pc = "done", !.got = got,
                                          !.result = DecodeResult(got),
                                          !.log = Append(l0, <<"decode", u>>)]]
                 /\ UNCHANGED <<fetchCalls, hitFetches>>
            ELSE IF OfflineShortCircuit
            THEN /\ task' = [task EXCEPT ![t] =
                                [@ EXCEPT !.pc = AfterError, !.got = got,
                                          !.result = Err("DoesNotExist"),
                                          !.log = l0]]
                 /\ UNCHANGED <<fetchCalls, hitFetches>>
            ELSE /\ task' = [task EXCEPT ![t] =
                                [@ EXCEPT !.pc = "fetching", !.got = got,
                                          !.log = Append(l0, <<"fetch", u>>)]]
                 /\ fetchCalls' = CountFetch(fetchCalls, u)
                 /\ hitFetches' = IF got # None THEN hitFetches + 1
                                  ELSE hitFetches
    /\ UNCHANGED <<bundle, call, finalized, kind, offline_mode, cache,
                   url_template, parameters, tmplLock, paramsLock,
                   tmplCommitted, paramsCommitted, mut, apiCalls>>

\* load_bytes_from_url fails with err: load_raw maps the error and load returns.
FetchFail(t, err) ==
    /\ task[t].pc = "fetching"
    /\ task' = [task EXCEPT ![t] =
                    [@ EXCEPT !.pc = AfterError, !.fetched = err,
                              !.result = MapFetchError(err)]]
    /\ UNCHANGED <<bundle, call, finalized, kind, offline_mode, cache,
                   url_template, parameters, tmplLock, paramsLock,
                   tmplCommitted, paramsCommitted, mut, fetchCalls,
                   hitFetches, apiCalls>>

\* Variant of WriteBack: the payload is decoded first and stored only when it
\* decodes.
WriteBackDecodable(store, k, bytes, ins) ==
    IF ins = "Ok" /\ Decode(bytes) = "ok" THEN StorePut(store, k, bytes)
    ELSE store

\* The store after cache.insert(url, &bytes): the insert is made whatever the
\* bytes are, and changes the store when it succeeds.
WriteBack(store, k, bytes, ins) ==
    IF ins = "Ok" THEN StorePut(store, k, bytes) ELSE store

\* load_bytes_from_url gives bytes: the write-back (insert succeeds iff insOk),
\* load_raw returns and load decodes.
FetchOk(t, bytes, insOk) ==
    /\ task[t].pc = "fetching"
    /\ LET u == task[t].url
           k == WriteBackKey(t)
           ins == IF ~cache.on THEN None ELSE IF insOk THEN "Ok" ELSE "Err"
           l1 == IF cache.on THEN Append(task[t].log, <<"insert", k>>)
                 ELSE task[t].log
           raw == AfterWriteBack(bytes, ins)
           \* ghost: the configuration no longer generates this load's URL
           moved == kind = "dyn" /\ ins # None
                      /\ GenerateUrl(url_template, parameters, task[t].idx) # u
       IN /\ cache' = [cache EXCEPT !.store = WriteBack(@, k, bytes, ins)]
          /\ task' = [task EXCEPT ![t] =
                         IF raw.tag = "Ok"
                         THEN [@ EXCEPT !.pc = "done", !.fetched = bytes,
                                        !.ins = ins, !.cfgMoved = moved,
                                        !.result = DecodeResult(raw.tile),
                                        !.log = Append(l1, <<"decode", u>>)]
                         ELSE [@ EXCEPT !.pc = AfterError, !.fetched = bytes,
                                        !.ins = ins, !.cfgMoved = moved,
                                        !.result = raw,
                                        !.log = l1]]
    /\ UNCHANGED <<bundle, call, finalized, kind, offline_mode, url_template,
                   parameters, tmplLock, paramsLock, tmplCommitted,
                   paramsCommitted, mut, fetchCalls, hitFetches, apiCalls>>

\* --------------------------------------------------------------- mutators

MutUnchanged ==
    UNCHANGED <<bundle, call, finalized, kind, offline_mode, cache,
                url_template, parameters, tmplCommitted, paramsCommitted,
                task, fetchCalls, hitFetches>>

MutCanStart == kind = "dyn" /\ mut.pc = "idle" /\ apiCalls < MaxCalls

\* Where a call of RwLock::write leaves the mutator: holding the lock when nobody
\* held it, waiting for it otherwise.
WriteOutcome(lock) == IF CanWrite(lock) THEN "locked" ELSE "waiting"

\* update_url_template(new_template): self.url_template.write().
UpdateUrlTemplate(tm) ==
    /\ MutCanStart
    /\ tmplLock' = [tmplLock EXCEPT !.writer = CanWrite(tmplLock)]
    /\ mut' = [IdleMut EXCEPT !.pc = WriteOutcome(tmplLock), !.op = "update_url_template",
                              !.tmpl = tm]
    /\ apiCalls' = apiCalls + 1
    /\ UNCHANGED paramsLock
    /\ MutUnchanged

\* update_parameters(new_parameters): self.parameters.write().
UpdateParameters(ps) ==
    /\ MutCanStart
    /\ paramsLock' = [paramsLock EXCEPT !.writer = CanWrite(paramsLock)]
    /\ mut' = [IdleMut EXCEPT !.pc = WriteOutcome(paramsLock), !.op = "update_parameters",
                              !.list = ps]
    /\ apiCalls' = apiCalls + 1
    /\ UNCHANGED tmplLock
    /\ MutUnchanged

\* add_parameter(key, value): self.parameters.write().
AddParameter(pair) ==
    /\ MutCanStart
    /\ Len(parameters) < MaxParams
    /\ paramsLock' = [paramsLock EXCEPT !.writer = CanWrite(paramsLock)]
    /\ mut' = [IdleMut EXCEPT !.pc = WriteOutcome(paramsLock), !.op = "add_parameter",
                              !.pair = pair]
    /\ apiCalls' = apiCalls + 1
    /\ UNCHANGED tmplLock
    /\ MutUnchanged

\* remove_parameter(key): self.parameters.write().
RemoveParameter(key) ==
    /\ MutCanStart
    /\ paramsLock' = [paramsLock EXCEPT !.writer = CanWrite(paramsLock)]
    /\ mut' = [IdleMut EXCEPT !.pc = WriteOutcome(paramsLock), !.op = "remove_parameter",
                              !.key = key]
    /\ apiCalls' = apiCalls + 1
    /\ UNCHANGED tmplLock
    /\ MutUnchanged

\* clear_parameters(): self.parameters.write().
ClearParameters ==
    /\ MutCanStart
    /\ paramsLock' = [paramsLock EXCEPT !.writer = CanWrite(paramsLock)]
    /\ mut' = [IdleMut EXCEPT !.pc = WriteOutcome(paramsLock), !.op = "clear_parameters"]
    /\ apiCalls' = apiCalls + 1
    /\ UNCHANGED tmplLock
    /\ MutUnchanged

\* RwLock::write returns to the mutator that waited: the lock has become free.
MutLock ==
    /\ mut.pc = "waiting"
    /\ IF mut.op = "update_url_template"
       THEN /\ CanWrite(tmplLock)
            /\ tmplLock' = [tmplLock EXCEPT !.writer = TRUE]
            /\ UNCHANGED paramsLock
       ELSE /\ CanWrite(paramsLock)
            /\ paramsLock' = [paramsLock EXCEPT !.writer = TRUE]
            /\ UNCHANGED tmplLock
    /\ mut' = [mut EXCEPT !.pc = "locked"]
    /\ UNCHANGED apiCalls
    /\ MutUnchanged

\* Index of the first entry of params whose key is key, 0 when there is none.
FirstMatch(params, key) ==
    IF \E i \in 1..Len(params) : params[i][1] = key
    THEN CHOOSE i \in 1..Len(params) :
             /\ params[i][1] = key
             /\ \A j \in 1..(i - 1) : params[j][1] # key
    ELSE 0

\* Variant of RemoveAt: the entries before entry i go as well.
RemoveThrough(params, i) == SubSeq(params, i + 1, Len(params))

\* params without its entry i.
RemoveAt(params, i) ==
    SubSeq(params, 1, i - 1) \o SubSeq(params, i + 1, Len(params))

\* The assignment behind the write guard. retain drops the matching entries one
\* at a time, so remove_parameter takes one step per entry it drops.
MutWrite ==
    /\ mut.pc = "locked"
    /\ CASE mut.op = "update_url_template" ->
              /\ url_template' = mut.tmpl
              /\ mut' = [mut EXCEPT !.pc = "written"]
              /\ UNCHANGED parameters
         [] mut.op = "update_parameters" ->
              /\ parameters' = mut.list
              /\ mut' = [mut EXCEPT !.pc = "written"]
              /\ UNCHANGED url_template
         [] mut.op = "add_parameter" ->
              /\ parameters' = Append(parameters, mut.pair)
              /\ mut' = [mut EXCEPT !.pc = "written"]
              /\ UNCHANGED url_template
         [] mut.op = "clear_parameters" ->
              /\ parameters' = <<>>
              /\ mut' = [mut EXCEPT !.pc = "written"]
              /\ UNCHANGED url_template
         [] mut.op = "remove_parameter" ->
              LET i == FirstMatch(parameters, mut.key)
                  rest == IF i = 0 THEN parameters ELSE RemoveAt(parameters, i)
              IN /\ parameters' = rest
                 /\ mut' = IF FirstMatch(rest, mut.key) = 0
                           THEN [mut EXCEPT !.pc = "written"]
                           ELSE mut
                 /\ UNCHANGED url_template
    /\ UNCHANGED <<bundle, call, finalized, kind, offline_mode, cache,
                   tmplLock, paramsLock, tmplCommitted, paramsCommitted, task,
                   fetchCalls, hitFetches, apiCalls>>

\* The write guard is dropped: the mutator call returns.
MutUnlock ==
    /\ mut.pc = "written"
    /\ mut' = IdleMut
    /\ IF mut.op = "update_url_template"
       THEN /\ tmplLock' = [tmplLock EXCEPT !.writer = FALSE]
            /\ UNCHANGED paramsLock
       ELSE /\ paramsLock' = [paramsLock EXCEPT !.writer = FALSE]
            /\ UNCHANGED tmplLock
    /\ tmplCommitted' = url_template
    /\ paramsCommitted' = parameters
    /\ UNCHANGED <<bundle, call, finalized, kind, offline_mode, cache,
                   url_template, parameters, task, fetchCalls, hitFetches,
                   apiCalls>>

\* ------------------------------------------------------------------- Next

Next ==
    \/ \E t \in Tasks, i \in Indices : WebLoadBegin(t, i)
    \/ \E t \in Tasks, i \in Indices : DynLoadBegin(t, i)
    \/ \E t \in Tasks : GenAcquireParams(t)
    \/ \E t \in Tasks : GenBuild(t)
    \/ \E t \in Tasks : LoadRawLookup(t)
    \/ \E t \in Tasks, err \in FetchErrors : FetchFail(t, err)
    \/ \E t \in Tasks, bytes \in Payloads, insOk \in BOOLEAN :
           FetchOk(t, bytes, insOk)
    \/ \E tm \in Templates : UpdateUrlTemplate(tm)
    \/ \E ps \in UpdateLists : UpdateParameters(ps)
    \/ \E pair \in ParamPool : AddParameter(pair)
    \/ \E key \in Keys : RemoveParameter(key)
    \/ ClearParameters
    \/ MutLock
    \/ MutWrite
    \/ MutUnlock

Spec == Init /\ [][Next]_vars

\* ----------------------------------------------------------- properties

LogOps(t) == [i \in 1..Len(task[t].log) |-> task[t].log[i][1]]

HasOp(t, op) == \E i \in 1..Len(task[t].log) : task[t].log[i][1] = op

CountOp(t, op) == Cardinality({i \in 1..Len(task[t].log) : task[t].log[i][1] = op})

Done(t) == task[t].pc = "done"

\* The result load owes the caller for what load_bytes_from_url gave.
Owed(fetched) ==
    IF fetched = "NotFound" THEN [tag |-> "DoesNotExist", tile |-> None]
    ELSE IF fetched \in FetchErrors THEN [tag |-> "Network", tile |-> None]
    ELSE IF fetched = "pbf" THEN [tag |-> "Ok", tile |-> fetched]
    ELSE [tag |-> "Decoding", tile |-> None]

\* C1: a load whose cache lookup returned bytes never calls the platform fetch,
\* online or offline: it ends with no fetch of its own, and the count of fetch
\* calls made after a lookup that gave bytes stays 0.
C1_HitNeverFetches ==
    /\ hitFetches = 0
    /\ \A t \in Tasks :
         task[t].got # None =>
            /\ Done(t)
            /\ ~HasOp(t, "fetch")
            /\ task[t].fetched = None

\* Two loads of the same cached URL have both completed from the cache of an
\* online loader and no fetch call was ever made.
C1_Witness ==
    /\ ~offline_mode
    /\ \A t \in Tasks : Done(t) /\ task[t].got = "pbf"
    /\ task["t1"].url = task["t2"].url
    /\ fetchCalls = {}

\* C2: in offline mode a load the cache gives no bytes for fails with
\* DoesNotExist, and no load ever calls the platform fetch.
C2_OfflineMiss ==
    offline_mode =>
        /\ fetchCalls = {}
        /\ \A t \in Tasks :
             /\ task[t].pc # "fetching"
             /\ ~HasOp(t, "fetch")
             /\ (Done(t) /\ task[t].got = None) =>
                    task[t].result = [tag |-> "DoesNotExist", tile |-> None]

\* An offline load missed a configured cache, another one ran without a cache
\* entry being returned, and both ended with DoesNotExist.
C2_Witness ==
    /\ offline_mode
    /\ cache.on
    /\ \A t \in Tasks :
         /\ Done(t)
         /\ task[t].got = None
         /\ task[t].result.tag = "DoesNotExist"

\* C3: after a successful fetch the result of load is the decoded payload (or
\* Decoding), the same whether cache.insert succeeded, failed or was not called.
C3_InsertFailureSwallowed ==
    \A t \in Tasks :
        (Done(t) /\ task[t].fetched \in Payloads) =>
            /\ task[t].result.tag \in {"Ok", "Decoding"}
            /\ task[t].result.tag = "Ok" <=> Decode(task[t].fetched) = "ok"
            /\ task[t].result.tag = "Ok" => task[t].result.tile = task[t].fetched

\* A load whose write-back failed returned the tile, and so did one whose
\* write-back succeeded.
C3_Witness ==
    /\ Done("t1") /\ task["t1"].ins = "Err" /\ task["t1"].result.tag = "Ok"
    /\ Done("t2") /\ task["t2"].ins = "Ok"
    /\ task["t2"].result = task["t1"].result

\* C4: a fetch failure NotFound gives DoesNotExist, any other fetch failure
\* gives Network; a fetch failure gives neither Decoding nor a tile.
C4_FetchErrorMapping ==
    \A t \in Tasks :
        (Done(t) /\ task[t].fetched \in FetchErrors) =>
            /\ task[t].fetched = "NotFound" =>
                   task[t].result.tag = "DoesNotExist"
            /\ task[t].fetched # "NotFound" => task[t].result.tag = "Network"
            /\ task[t].result.tile = None

\* One load ended with DoesNotExist after NotFound, another with Network after
\* another failure.
C4_Witness ==
    /\ Done("t1") /\ task["t1"].fetched = "NotFound"
    /\ task["t1"].result.tag = "DoesNotExist"
    /\ Done("t2") /\ task["t2"].fetched = "Generic"
    /\ task["t2"].result.tag = "Network"

OpRank(op) ==
    CASE op = "get" -> 1 [] op = "fetch" -> 2 [] op = "insert" -> 3
      [] op = "decode" -> 4

\* C5: a load call does one cache lookup (iff a cache is configured), then at
\* most one fetch, then at most one decode, and once it has an outcome it has
\* returned: nothing is tried again.
C5_NoRetry ==
    \A t \in Tasks :
        LET ops == LogOps(t) IN
        /\ \A i, j \in 1..Len(ops) : i < j => OpRank(ops[i]) < OpRank(ops[j])
        /\ CountOp(t, "fetch") <= 1
        /\ CountOp(t, "decode") <= 1
        /\ task[t].pc \in {"fetching", "done"} =>
               CountOp(t, "get") = (IF cache.on THEN 1 ELSE 0)
        /\ Done(t) <=> task[t].result.tag # None

\* A load went through lookup, fetch, write-back and decode, and another one
\* ended on a fetch failure after one lookup and one fetch.
C5_Witness ==
    /\ Done("t1") /\ LogOps("t1") = <<"get", "fetch", "insert", "decode">>
    /\ Done("t2") /\ LogOps("t2") = <<"get", "fetch">>
    /\ task["t2"].result.tag = "Network"

\* The bytes load_raw gave load, None when it gave an error.
RawBytes(t) ==
    IF task[t].got # None THEN task[t].got
    ELSE IF task[t].fetched \in Payloads THEN task[t].fetched
    ELSE None

\* C6: load returns a tile only for bytes that were obtained and decode, returns
\* Decoding whenever obtained bytes do not decode, and otherwise returns the
\* typed fetch error; a failed cache lookup or insert is never the result.
C6_TypedResults ==
    \A t \in Tasks :
        Done(t) =>
            /\ task[t].result.tag \in {"Ok", "Network", "DoesNotExist", "Decoding"}
            /\ task[t].result.tag = "Ok" =>
                   /\ RawBytes(t) # None
                   /\ Decode(RawBytes(t)) = "ok"
                   /\ task[t].result.tile = RawBytes(t)
            /\ (RawBytes(t) # None /\ Decode(RawBytes(t)) = "err") =>
                   task[t].result = [tag |-> "Decoding", tile |-> None]
            /\ RawBytes(t) = None =>
                   task[t].result.tag \in {"Network", "DoesNotExist"}

\* Bytes from the cache failed to decode in one load, bytes from the network in
\* another; both returned Decoding.
C6_Witness ==
    /\ Done("t1") /\ task["t1"].got = "junk"
    /\ task["t1"].result.tag = "Decoding"
    /\ Done("t2") /\ task["t2"].fetched = "junk"
    /\ task["t2"].result.tag = "Decoding"

\* The claim C7 as stated: an online load the cache gives no bytes for fetches
\* once and returns what the fetch owes, and an online load fails only as the
\* outcome of its own fetch, whatever the cache holds.
C7_CacheNeverFailsOnlineLoad ==
    ~offline_mode =>
        \A t \in Tasks :
            Done(t) =>
                /\ task[t].got = None =>
                       /\ CountOp(t, "fetch") = 1
                       /\ task[t].result = Owed(task[t].fetched)
                /\ task[t].result.tag # "Ok" =>
                       /\ task[t].fetched # None
                       /\ task[t].result = Owed(task[t].fetched)

\* C7: an online load the cache gives no bytes for (no cache, or get gave None)
\* fetches exactly once and returns what the fetch owes; an online load fails
\* only as the outcome of its own fetch, or with Decoding on cached bytes that
\* do not decode.
C7_UnavailableCacheAlwaysFetches ==
    ~offline_mode =>
        \A t \in Tasks :
            Done(t) =>
                /\ task[t].got = None =>
                       /\ CountOp(t, "fetch") = 1
                       /\ task[t].result = Owed(task[t].fetched)
                /\ task[t].result.tag # "Ok" =>
                       \/ /\ task[t].fetched # None
                          /\ task[t].result = Owed(task[t].fetched)
                       \/ /\ task[t].got # None
                          /\ Decode(task[t].got) = "err"
                          /\ task[t].result.tag = "Decoding"

\* An online loader without a cache and one whose cache failed both the lookup
\* and the insert: each load fetched and returned the tile.
C7_Witness ==
    /\ ~offline_mode
    /\ Done("t1") /\ task["t1"].got = None /\ task["t1"].ins = "Err"
    /\ StoreGet(cache.store, task["t1"].url) # None
    /\ task["t1"].result.tag = "Ok"
    /\ Done("t2") /\ task["t2"].got = None /\ task["t2"].result.tag = "Ok"

\* C8: every cache lookup, fetch and write-back of one load uses the URL the
\* load computed at its start, and the URL a load enters load_raw with is the
\* one generate_url gives for the template and parameters left by the mutator
\* calls completed by then.
C8_UrlComputedOnce ==
    \A t \in Tasks :
        /\ \A i \in 1..Len(task[t].log) : task[t].log[i][2] = task[t].url
        /\ (kind = "dyn" /\ task[t].pc = "load_raw") =>
               task[t].url = GenerateUrl(task[t].tmplStable,
                                         task[t].paramsStable, task[t].idx)

\* A load wrote its bytes back under its own URL after the configuration had
\* moved on, and a load started later uses the URL of the new configuration.
C8_Witness ==
    /\ Done("t1") /\ task["t1"].cfgMoved /\ task["t1"].ins = "Ok"
    /\ <<task["t1"].url, task["t1"].fetched>> \in cache.store
    /\ task["t2"].pc = "load_raw"
    /\ task["t2"].url # task["t1"].url
    /\ task["t2"].url = GenerateUrl(tmplCommitted, paramsCommitted,
                                    task["t2"].idx)

\* C9: generate_url reads the template and the parameters only while no mutator
\* is between taking and dropping its write guard, so what it substitutes and
\* serializes are values left by completed mutator calls (or the constructor).
C9_SnapshotFullyFormed ==
    \A t \in Tasks :
        /\ task[t].pc = "gen_build" =>
               /\ ~tmplLock.writer /\ ~paramsLock.writer
               /\ url_template = tmplCommitted
               /\ parameters = paramsCommitted
        /\ task[t].pc = "gen_params" =>
               ~tmplLock.writer /\ url_template = tmplCommitted
        /\ (kind = "dyn" /\ task[t].pc \in {"load_raw", "fetching", "done"}) =>
               /\ task[t].tmplSnap = task[t].tmplStable
               /\ task[t].paramsSnap = task[t].paramsStable
               /\ task[t].tmplSnap \in Templates

\* A URL generation holds the template guard and waits for the parameters
\* while remove_parameter has dropped one of the two entries it is to drop.
C9_Witness ==
    \E t \in Tasks :
        /\ task[t].pc = "gen_params"
        /\ mut.pc = "locked" /\ mut.op = "remove_parameter"
        /\ Len(paramsCommitted) = 2
        /\ Len(parameters) = 1

\* C10: loads are not coalesced: every load that missed online has made its own
\* fetch call, the fetch count of a URL is at least the number of loads holding
\* a fetch of it, and each returns what its own fetch owes.
C10_NoExclusivity ==
    \A t \in Tasks :
        /\ (task[t].pc = "fetching"
              \/ (Done(t) /\ task[t].got = None /\ ~offline_mode)) =>
               HasOp(t, "fetch")
        /\ HasOp(t, "fetch") =>
               FetchCount(task[t].url) >=
                   Cardinality({s \in Tasks : /\ HasOp(s, "fetch")
                                              /\ task[s].url = task[t].url})
        /\ (Done(t) /\ HasOp(t, "fetch")) =>
               task[t].result = Owed(task[t].fetched)

\* Two loads of the same index were suspended on their fetches together.
C10_Witness ==
    /\ \A t \in Tasks : task[t].pc = "fetching" /\ task[t].got = None
    /\ task["t1"].idx = task["t2"].idx
    /\ task["t1"].url = task["t2"].url
    /\ FetchCount(task["t1"].url) = 2


\* ------------------------------------------------- generate_url, templates

\* Largest number of pieces a template of UrlSpec is made of.
MaxPieces == 3

ZTok == <<"{", "z", "}">>
XTok == <<"{", "x", "}">>
YTok == <<"{", "y", "}">>

\* What templates are made of: the three placeholders and the characters they
\* are spelled with, so that braces nest and placeholders touch.
Pieces == {ZTok, XTok, YTok, <<"{">>, <<"}">>, <<"z">>, <<"x">>, <<"/">>}

RECURSIVE TemplatesOf(_)
\* Every template of at most n pieces.
TemplatesOf(n) ==
    IF n = 0 THEN {<<>>}
    ELSE LET shorter == TemplatesOf(n - 1)
         IN shorter \cup {t \o p : t \in shorter, p \in Pieces}

\* TileIndex values: z is u32, x and y are i32.
UrlIndices == {[z |-> 0, x |-> -1, y |-> 12], [z |-> 10, x |-> 3, y |-> 0]}

\* A pair whose key and value spell placeholders.
P3 == <<ZTok, XTok>>
UrlParams == {<<>>, <<P3, P2>>}

\* A loader built by DynamicUrlVtLoader::new(template, None, false); the
\* parameters are what update_parameters left.
UrlInit ==
    /\ kind = "dyn"
    /\ offline_mode = FALSE
    /\ cache = [on |-> FALSE, store |-> {}]
    /\ url_template \in TemplatesOf(MaxPieces)
    /\ parameters \in UrlParams
    /\ tmplLock = Free
    /\ paramsLock = Free
    /\ tmplCommitted = url_template
    /\ paramsCommitted = parameters
    /\ mut = IdleMut
    /\ task = [t \in Tasks |-> IdleTask]
    /\ fetchCalls = {}
    /\ hitFetches = 0
    /\ apiCalls = 0
    /\ bundle = EmptyBundle
    /\ call = NoCall
    /\ finalized = FALSE

\* One call of load, followed up to the return of generate_url.
UrlNext ==
    \/ \E i \in UrlIndices : DynLoadBegin("t1", i)
    \/ GenAcquireParams("t1")
    \/ GenBuild("t1")

UrlSpec == UrlInit /\ [][UrlNext]_vars

\* s has pat as a substring.
Contains(s, pat) ==
    \E i \in 1..(Len(s) - Len(pat) + 1) : SubSeq(s, i, i + Len(pat) - 1) = pat

HasToken(s) == Contains(s, ZTok) \/ Contains(s, XTok) \/ Contains(s, YTok)

StartsWith(s, pat) == Len(s) >= Len(pat) /\ SubSeq(s, 1, Len(pat)) = pat

RECURSIVE OnePass(_, _)
\* The template read once from left to right, each placeholder met giving way to
\* the decimal value of its component, everything else copied.
OnePass(s, index) ==
    IF s = <<>> THEN <<>>
    ELSE IF StartsWith(s, ZTok)
         THEN IntToString(index.z) \o OnePass(SubSeq(s, 4, Len(s)), index)
    ELSE IF StartsWith(s, XTok)
         THEN IntToString(index.x) \o OnePass(SubSeq(s, 4, Len(s)), index)
    ELSE IF StartsWith(s, YTok)
         THEN IntToString(index.y) \o OnePass(SubSeq(s, 4, Len(s)), index)
    ELSE <<s[1]>> \o OnePass(Tail(s), index)

\* generate_url has returned in task t.
UrlBuilt(t) == task[t].pc = "load_raw"

\* C11: for every template and index, the URL generate_url returns starts with
\* the template in which every {z}, {x} and {y} has given way to the decimal
\* value of z, x and y, at the position of the placeholder, and the URL has no
\* {z}, {x} or {y} left (the three replace calls in sequence create none).
C11_PlaceholdersReplaced ==
    \A t \in Tasks :
        UrlBuilt(t) =>
            LET u == task[t].url
                want == OnePass(task[t].tmplSnap, task[t].idx)
            IN /\ StartsWith(u, want)
               /\ ~HasToken(u)
               /\ task[t].paramsSnap = <<>> => u = want

\* C11 witness: a template where a placeholder sits inside braces and another
\* occurs twice, with a negative x, has been substituted.
C11_Witness ==
    /\ UrlBuilt("t1")
    /\ task["t1"].tmplSnap \in {<<"{">> \o ZTok \o <<"}">>, XTok \o ZTok \o XTok}
    /\ task["t1"].idx.x < 0
    /\ task["t1"].paramsSnap # <<>>


\* ----------------------------------------------- generate_url, parameters

\* Keys and values of ParamSpec: a separator, an escape and a non-ASCII
\* character among them, a text that is itself an escape, and the empty text.
K == <<"k">>
Q == <<"q", "e-acute">>
P4 == <<Q, (<<"=", "?", " ">>)>>
P5 == <<K, (<<"%", "2", "F">>)>>
P6 == <<(<<>>), (<<>>)>>
QueryPairs == {P2, P4, P5, P6}
QueryKeys == {K, Q}
QueryLists == {<<P2, P4, P5>>, <<P5, P2, P5>>}

\* DynamicUrlVtLoader::new("{z}/{x}/{y}", None, false).
ParamInit ==
    /\ kind = "dyn"
    /\ offline_mode = FALSE
    /\ cache = [on |-> FALSE, store |-> {}]
    /\ url_template = T0
    /\ parameters = <<>>
    /\ tmplLock = Free
    /\ paramsLock = Free
    /\ tmplCommitted = T0
    /\ paramsCommitted = <<>>
    /\ mut = IdleMut
    /\ task = [t \in Tasks |-> IdleTask]
    /\ fetchCalls = {}
    /\ hitFetches = 0
    /\ apiCalls = 0
    /\ bundle = EmptyBundle
    /\ call = NoCall
    /\ finalized = FALSE

\* The parameter mutators, and a call of load followed up to the return of
\* generate_url.
ParamNext ==
    \/ \E pair \in QueryPairs : AddParameter(pair)
    \/ \E key \in QueryKeys : RemoveParameter(key)
    \/ ClearParameters
    \/ \E ps \in QueryLists : UpdateParameters(ps)
    \/ MutLock
    \/ MutWrite
    \/ MutUnlock
    \/ \E i \in Indices : DynLoadBegin("t1", i)
    \/ GenAcquireParams("t1")
    \/ GenBuild("t1")

ParamSpec == ParamInit /\ [][ParamNext]_vars

\* Code points of the characters of the model's alphabet.
CodePoints ==
    {<<" ", 32>>, <<"%", 37>>, <<"&", 38>>, <<"-", 45>>, <<".", 46>>,
     <<"/", 47>>, <<"2", 50>>, <<"=", 61>>, <<"?", 63>>, <<"F", 70>>,
     <<"_", 95>>, <<"a", 97>>, <<"b", 98>>, <<"k", 107>>, <<"q", 113>>,
     <<"t", 116>>, <<"v", 118>>, <<"x", 120>>, <<"y", 121>>, <<"z", 122>>,
     <<"{", 123>>, <<"}", 125>>, <<"~", 126>>, <<"e-acute", 233>>}

CodeOf(c) == (CHOOSE p \in CodePoints : p[1] = c)[2]
CharOf(n) ==
    IF \E p \in CodePoints : p[2] = n
    THEN (CHOOSE p \in CodePoints : p[2] = n)[1]
    ELSE "?unknown"

HexDigits ==
    <<"0", "1", "2", "3", "4", "5", "6", "7", "8", "9", "A", "B", "C", "D",
      "E", "F">>
IsHex(c) == \E i \in 1..16 : HexDigits[i] = c
HexVal(c) == (CHOOSE i \in 1..16 : HexDigits[i] = c) - 1

RECURSIVE PercentBytes(_)
\* Percent-decoding, first half: %XY becomes the byte XY, any other character
\* its own byte.
PercentBytes(s) ==
    IF s = <<>> THEN <<>>
    ELSE IF s[1] = "%" /\ Len(s) >= 3 /\ IsHex(s[2]) /\ IsHex(s[3])
         THEN <<16 * HexVal(s[2]) + HexVal(s[3])>>
                  \o PercentBytes(SubSeq(s, 4, Len(s)))
         ELSE <<CodeOf(s[1])>> \o PercentBytes(Tail(s))

RECURSIVE Utf8Chars(_)
\* Percent-decoding, second half: the bytes read as UTF-8 (one- and two-byte
\* sequences).
Utf8Chars(bytes) ==
    IF bytes = <<>> THEN <<>>
    ELSE IF bytes[1] < 128
         THEN <<CharOf(bytes[1])>> \o Utf8Chars(Tail(bytes))
    ELSE IF bytes[1] >= 192 /\ bytes[1] < 224 /\ Len(bytes) >= 2
         THEN <<CharOf((bytes[1] - 192) * 64 + (bytes[2] - 128))>>
                  \o Utf8Chars(SubSeq(bytes, 3, Len(bytes)))
    ELSE <<"?invalid">> \o Utf8Chars(Tail(bytes))

PercentDecode(s) == Utf8Chars(PercentBytes(s))

RECURSIVE Split(_, _)
\* str::split on the character sep.
Split(s, sep) ==
    IF \A i \in 1..Len(s) : s[i] # sep THEN <<s>>
    ELSE LET i == CHOOSE j \in 1..Len(s) :
                      s[j] = sep /\ \A h \in 1..(j - 1) : s[h] # sep
         IN <<SubSeq(s, 1, i - 1)>> \o Split(SubSeq(s, i + 1, Len(s)), sep)

\* The (key, value) pairs a receiver reads out of the query string q.
ParseQuery(q) ==
    LET parts == Split(q, "&")
    IN [i \in 1..Len(parts) |->
           LET kv == Split(parts[i], "=")
           IN IF Len(kv) = 2
              THEN <<PercentDecode(kv[1]), PercentDecode(kv[2])>>
              ELSE <<"?malformed", parts[i]>>]

\* What generate_url appended to the substituted template.
Appended(t) ==
    SubSeq(task[t].url, Len(Substitute(task[t].tmplSnap, task[t].idx)) + 1,
           Len(task[t].url))

\* C12: generate_url appends nothing to the substituted template when the
\* parameter list is empty; otherwise it appends '?' and one key=value pair per
\* entry, joined with '&', in the order of the list (duplicate keys kept), and
\* percent-decoding each key and value gives back the entry exactly.
C12_QueryRoundTrip ==
    \A t \in Tasks :
        UrlBuilt(t) =>
            /\ StartsWith(task[t].url,
                          Substitute(task[t].tmplSnap, task[t].idx))
            /\ IF task[t].paramsSnap = <<>>
               THEN Appended(t) = <<>>
               ELSE /\ StartsWith(Appended(t), <<"?">>)
                    /\ ParseQuery(Tail(Appended(t))) = task[t].paramsSnap

\* C12 witness: a URL was generated from a list that add_parameter built with
\* one key twice and with text that needs escaping.
C12_Witness ==
    /\ UrlBuilt("t1")
    /\ Len(task["t1"].paramsSnap) = 2
    /\ task["t1"].paramsSnap[1][1] = task["t1"].paramsSnap[2][1]
    /\ \E i \in 1..2 : task["t1"].paramsSnap[i] = P5
    /\ \E i \in 1..2 : task["t1"].paramsSnap[i] = P2


\* A mutator has made its change and still holds the write guard:
\* paramsCommitted is the list the call found, parameters the list it leaves.
Written(op) == mut.pc = "written" /\ mut.op = op

\* The entries of params whose key is not key, in the order of params.
WithoutKey(params, key) == SelectSeq(params, LAMBDA p : p[1] # key)

\* C13: remove_parameter(k) leaves exactly the entries whose key is not k, in
\* their previous order; clear_parameters leaves the empty list; add_parameter
\* leaves the previous list with the new entry appended, whatever keys it
\* holds; update_parameters leaves the list it was given.
C13_ParameterMutations ==
    /\ Written("remove_parameter") =>
           parameters = WithoutKey(paramsCommitted, mut.key)
    /\ Written("clear_parameters") => parameters = <<>>
    /\ Written("add_parameter") =>
           /\ Len(parameters) = Len(paramsCommitted) + 1
           /\ SubSeq(parameters, 1, Len(paramsCommitted)) = paramsCommitted
           /\ parameters[Len(parameters)] = mut.pair
    /\ Written("update_parameters") => parameters = mut.list

\* C13 witness: remove_parameter took the first and the last of three entries
\* and left the one between them, whose key is another.
C13_Witness ==
    /\ Written("remove_parameter")
    /\ mut.key = K
    /\ paramsCommitted = <<P2, P4, P5>>
    /\ parameters = <<P4>>


\* ----------------------------------------------------- render bundle, calls

\* Largest number of calls made on the bundles of one behaviour.
MaxAdds == 3

\* Point3 values.
PA == <<1, 2, 0>>
PB == <<3, 4, 0>>
Points == {PA, PB}

\* WorldRenderSet::add_image / add_image_owned
WorldAddImage(ws, image, vertices, paint) ==
    [ws EXCEPT !.images = Append(@, <<image, vertices, paint>>)]

\* WorldRenderSet::add_point
WorldAddPoint(ws, point, paint) ==
    [ws EXCEPT !.points = Append(@, <<point, paint>>)]

\* WorldRenderSet::add_line
WorldAddLine(ws, line, paint, min_resolution) ==
    [ws EXCEPT !.lines = Append(@, <<line, paint>>)]

\* WorldRenderSet::add_polygon
WorldAddPolygon(ws, polygon, paint, min_resolution) ==
    [ws EXCEPT !.polygons = Append(@, <<polygon, paint>>)]

\* WorldRenderSet::add_label
WorldAddLabel(ws, position, text, style, offset) ==
    [ws EXCEPT !.labels = Append(@, <<position, text, style, offset>>)]

\* Option<ScreenRenderSet>: Some(set) and None.
Some(x) == <<x>>
Nothing == <<>>

\* ScreenRenderSet::new_from_label: a set anchored at the position, or None when
\* the text gives nothing to draw.
NewFromLabel(position, text, style, offset) ==
    IF text = "" THEN Nothing
    ELSE Some([anchor |-> position,
               content |-> <<"label", text, style, offset>>])

\* ScreenRenderSet::new_from_marker: a set anchored at the position, or None
\* when the style's image has no pixels.
NewFromMarker(position, style) ==
    IF style.image = "empty" THEN Nothing
    ELSE Some([anchor |-> position, content |-> <<"marker", style>>])

\* RenderBundle::add_image
add_image(b, image, vertices, paint) ==
    [b EXCEPT !.world_set = WorldAddImage(@, image, vertices, paint)]

\* RenderBundle::add_image_owned
add_image_owned(b, image, vertices, paint) ==
    [b EXCEPT !.world_set = WorldAddImage(@, image, vertices, paint)]

\* Variant of add_point: the point becomes a screen set of its own.
add_point_screen(b, point, paint, min_resolution) ==
    [b EXCEPT !.screen_sets =
                  Append(@, [anchor |-> point, content |-> <<"point", paint>>])]

\* RenderBundle::add_point
add_point(b, point, paint, min_resolution) ==
    [b EXCEPT !.world_set = WorldAddPoint(@, point, paint)]

\* RenderBundle::add_line
add_line(b, line, paint, min_resolution) ==
    [b EXCEPT !.world_set = WorldAddLine(@, line, paint, min_resolution)]

\* RenderBundle::add_polygon
add_polygon(b, polygon, paint, min_resolution) ==
    [b EXCEPT !.world_set = WorldAddPolygon(@, polygon, paint, min_resolution)]

\* Variant of add_label: attach_to_map is not looked at.
add_label_screen(b, position, text, style, offset, attach_to_map) ==
    LET set == NewFromLabel(position, text, style, offset)
    IN IF set # Nothing THEN [b EXCEPT !.screen_sets = Append(@, set[1])]
       ELSE b

\* RenderBundle::add_label
add_label(b, position, text, style, offset, attach_to_map) ==
    IF attach_to_map
    THEN [b EXCEPT !.world_set = WorldAddLabel(@, position, text, style, offset)]
    ELSE LET set == NewFromLabel(position, text, style, offset)
         IN IF set # Nothing
            THEN [b EXCEPT !.screen_sets = Append(@, set[1])]
            ELSE b

\* Variant of add_marker: a set equal to one the bundle holds is not added again.
add_marker_dedup(b, position, style) ==
    LET set == NewFromMarker(position, style)
    IN IF set # Nothing /\ \A i \in 1..Len(b.screen_sets) :
                               b.screen_sets[i] # set[1]
       THEN [b EXCEPT !.screen_sets = Append(@, set[1])]
       ELSE b

\* Variant of add_marker: the new set goes in front of the others.
add_marker_front(b, position, style) ==
    LET set == NewFromMarker(position, style)
    IN IF set # Nothing THEN [b EXCEPT !.screen_sets = set \o @] ELSE b

\* RenderBundle::add_marker
add_marker(b, position, style) ==
    LET set == NewFromMarker(position, style)
    IN IF set # Nothing THEN [b EXCEPT !.screen_sets = Append(@, set[1])]
       ELSE b

\* Geom<Point3> values: a point, a multi-point of three points (one of them
\* twice) and a contour.
GeomPoint == [kind |-> "Point", points |-> <<PA>>]
GeomMulti == [kind |-> "MultiPoint", points |-> <<PA, PB, PA>>]
GeomLine == [kind |-> "Line", points |-> <<PA, PB>>]
Geoms == {GeomPoint, GeomMulti, GeomLine}

\* PointPaint::circle(color, size)
PaintCircle(color, size) == [shape |-> "circle", color |-> color, size |-> size]
\* PointPaint::square(color, size)
PaintSquare(color, size) == [shape |-> "square", color |-> color, size |-> size]
\* PointPaint::label(text, style)
PaintLabel(text, style) == [shape |-> "label", text |-> text, style |-> style]

\* DecodedImage::size of the images of the model.
ImageSize(image) == IF image = "pin" THEN <<62, 99>> ELSE <<0, 0>>

\* The MarkerStyle::Image ImagePointSymbol::render builds.
MarkerImage(image, anchor, scale) ==
    [image |-> image, anchor |-> anchor,
     size |-> <<ImageSize(image)[1] * scale, ImageSize(image)[2] * scale>>]

\* Marker styles handed to add_marker directly.
MarkerStyles == {MarkerImage("pin", "center", 1), MarkerImage("empty", "center", 1)}
\* Label texts handed to add_label.
LabelTexts == {"A", ""}

RECURSIVE CircleEach(_, _, _, _)
\* points.iter_points().for_each(|p| bundle.add_point(&p, &paint, min_resolution))
CircleEach(b, points, paint, min_resolution) ==
    IF points = <<>> THEN b
    ELSE CircleEach(add_point(b, points[1], paint, min_resolution),
                    Tail(points), paint, min_resolution)

\* Variant of CircleRender: a multi-point gives one entry, at its first point.
CircleRenderAggregate(b, symbol, geometry, min_resolution) ==
    IF geometry.kind \in {"Point", "MultiPoint"}
    THEN add_point(b, geometry.points[1],
                   PaintCircle(symbol.color, symbol.size), min_resolution)
    ELSE b

\* CirclePointSymbol::render
CircleRender(b, symbol, geometry, min_resolution) ==
    LET paint == PaintCircle(symbol.color, symbol.size)
    IN CASE geometry.kind = "Point" ->
                add_point(b, geometry.points[1], paint, min_resolution)
         [] geometry.kind = "MultiPoint" ->
                CircleEach(b, geometry.points, paint, min_resolution)
         [] OTHER -> b

RECURSIVE ImageEach(_, _, _)
\* points.iter_points().for_each(|point| add_marker(&point, bundle))
ImageEach(b, points, style) ==
    IF points = <<>> THEN b
    ELSE ImageEach(add_marker(b, points[1], style), Tail(points), style)

\* ImagePointSymbol::render
ImageRender(b, symbol, geometry) ==
    LET style == MarkerImage(symbol.image, symbol.offset, symbol.scale)
    IN CASE geometry.kind = "Point" -> add_marker(b, geometry.points[1], style)
         [] geometry.kind = "MultiPoint" -> ImageEach(b, geometry.points, style)
         [] OTHER -> b

\* Ten times the side of the background square of a text marker:
\* estimated_char_width = font_size * 0.6, text_width = that * text.len(),
\* the larger of text_width + 2 * padding and font_size + 2 * padding.
BackgroundSize10(symbol, text) ==
    LET bg_width == symbol.text_style.font_size * 6 * Len(text)
                        + symbol.padding * 20
        bg_height == symbol.text_style.font_size * 10 + symbol.padding * 20
    IN IF bg_width >= bg_height THEN bg_width ELSE bg_height

\* Variant of RenderTextMarker: the text is submitted first, the background on
\* top of it.
RenderTextMarkerLabelFirst(b, symbol, text, point, min_resolution) ==
    add_point(add_point(b, point, PaintLabel(text, symbol.text_style),
                        min_resolution),
              point, PaintSquare("BLACK", BackgroundSize10(symbol, text)),
              min_resolution)

\* The closure render_text_marker of TextMarkerSymbol::render.
RenderTextMarker(b, symbol, text, point, min_resolution) ==
    add_point(add_point(b, point,
                        PaintSquare("BLACK", BackgroundSize10(symbol, text)),
                        min_resolution),
              point, PaintLabel(text, symbol.text_style), min_resolution)

RECURSIVE TextEach(_, _, _, _, _)
\* points.iter_points().for_each(|point| render_text_marker(&point, bundle))
TextEach(b, symbol, text, points, min_resolution) ==
    IF points = <<>> THEN b
    ELSE TextEach(RenderTextMarker(b, symbol, text, points[1], min_resolution),
                  symbol, text, Tail(points), min_resolution)

\* TextMarkerSymbol::render
TextMarkerRender(b, symbol, text, geometry, min_resolution) ==
    CASE geometry.kind = "Point" ->
             RenderTextMarker(b, symbol, text, geometry.points[1],
                              min_resolution)
      [] geometry.kind = "MultiPoint" ->
             TextEach(b, symbol, text, geometry.points, min_resolution)
      [] OTHER -> b

\* CirclePointSymbol::new(color, size)
CircleSymbol == [color |-> "RED", size |-> 10]
\* ImagePointSymbol::from_path / from_bytes: the image is one an image decoder
\* gave.
ImageSymbol == [image |-> "pin", offset |-> "center", scale |-> 1]
\* TextMarkerSymbol::new()
TextSymbol == [text_style |-> [font_size |-> 12, font_color |-> "WHITE"],
               padding |-> 4]

LoaderUnchanged ==
    UNCHANGED <<kind, offline_mode, cache, url_template, parameters, tmplLock,
                paramsLock, tmplCommitted, paramsCommitted, mut, task,
                fetchCalls, hitFetches, apiCalls>>

\* Variant of Accumulating: the bundle stays open to its callers after the
\* hand-off.
AccumulatingAlways == TRUE

\* The callers of add_* still hold the bundle (&mut self): it was not handed
\* off to the renderer.
Accumulating == ~finalized

\* A call can be made on the bundle.
CanSubmit == Accumulating /\ call.n < MaxAdds

\* The call op(arg) leaves the bundle as b2.
Submit(op, arg, b2) ==
    /\ bundle' = b2
    /\ call' = [op |-> op, arg |-> arg, before |-> bundle, n |-> call.n + 1]
    /\ UNCHANGED finalized
    /\ LoaderUnchanged

AddImage(image) ==
    /\ CanSubmit
    /\ Submit("add_image", image, add_image(bundle, image, "quad", "opaque"))

AddImageOwned(image) ==
    /\ CanSubmit
    /\ Submit("add_image_owned", image,
              add_image_owned(bundle, image, "quad", "opaque"))

AddPoint(point) ==
    /\ CanSubmit
    /\ Submit("add_point", point,
              add_point(bundle, point, PaintCircle("RED", 10), 1))

AddLine(line) ==
    /\ CanSubmit
    /\ Submit("add_line", line, add_line(bundle, line, "stroke", 1))

AddPolygon(polygon) ==
    /\ CanSubmit
    /\ Submit("add_polygon", polygon, add_polygon(bundle, polygon, "fill", 1))

AddLabel(position, text, attach_to_map) ==
    /\ CanSubmit
    /\ Submit("add_label",
              [position |-> position, text |-> text, attach |-> attach_to_map],
              add_label(bundle, position, text, "plain", <<0, 0>>, attach_to_map))

AddMarker(position, style) ==
    /\ CanSubmit
    /\ Submit("add_marker", [position |-> position, style |-> style],
              add_marker(bundle, position, style))

CirclePointRender(geometry) ==
    /\ CanSubmit
    /\ Submit("circle_render", geometry,
              CircleRender(bundle, CircleSymbol, geometry, 1))

ImagePointRender(geometry) ==
    /\ CanSubmit
    /\ Submit("image_render", geometry, ImageRender(bundle, ImageSymbol, geometry))

TextMarkerSymbolRender(geometry, text) ==
    /\ CanSubmit
    /\ Submit("text_render", geometry,
              TextMarkerRender(bundle, TextSymbol, text, geometry, 1))

\* The bundle goes to the renderer, which consumes it.
HandOff ==
    /\ ~finalized
    /\ finalized' = TRUE
    /\ UNCHANGED <<bundle, call>>
    /\ LoaderUnchanged

\* RenderBundle::default() for the next render pass.
NewBundle ==
    /\ finalized
    /\ bundle' = EmptyBundle
    /\ call' = [NoCall EXCEPT !.n = call.n]
    /\ finalized' = FALSE
    /\ LoaderUnchanged

BundleInit ==
    /\ kind = "web"
    /\ offline_mode = FALSE
    /\ cache = [on |-> FALSE, store |-> {}]
    /\ url_template = T0
    /\ parameters = <<>>
    /\ tmplLock = Free
    /\ paramsLock = Free
    /\ tmplCommitted = T0
    /\ paramsCommitted = <<>>
    /\ mut = IdleMut
    /\ task = [t \in Tasks |-> IdleTask]
    /\ fetchCalls = {}
    /\ hitFetches = 0
    /\ apiCalls = 0
    /\ bundle = EmptyBundle
    /\ call = NoCall
    /\ finalized = FALSE

BundleNext ==
    \/ AddImage("pin")
    \/ AddImageOwned("pin")
    \/ AddPoint(PA)
    \/ AddLine(<<PA, PB>>)
    \/ AddPolygon(<<PA, PB, PA>>)
    \/ \E text \in LabelTexts, attach \in BOOLEAN : AddLabel(PA, text, attach)
    \/ \E style \in MarkerStyles : AddMarker(PB, style)
    \/ \E g \in Geoms : CirclePointRender(g)
    \/ \E g \in Geoms : ImagePointRender(g)
    \/ \E g \in Geoms : TextMarkerSymbolRender(g, "Hi")
    \/ HandOff
    \/ NewBundle

BundleSpec == BundleInit /\ [][BundleNext]_vars


\* ------------------------------------------------- render bundle, properties

\* The last call on the bundle was op.
Called(op) == call.op = op

\* s is t followed by exactly one more entry.
OneAppended(s, t) == Len(s) = Len(t) + 1 /\ SubSeq(s, 1, Len(t)) = t

\* The screen set e stands for the label of the call's argument.
IsLabelSet(e, arg) ==
    /\ e.anchor = arg.position
    /\ e.content[1] = "label"
    /\ e.content[2] = arg.text

\* The world set holds the label of the call's argument as its newest label.
NewestWorldLabel(arg) ==
    /\ OneAppended(bundle.world_set.labels, call.before.world_set.labels)
    /\ LET l == bundle.world_set.labels[Len(bundle.world_set.labels)]
       IN l[1] = arg.position /\ l[2] = arg.text

\* The label of an add_label call went where the claim says.
LabelRouted ==
    IF call.arg.attach
    THEN /\ NewestWorldLabel(call.arg)
         /\ bundle.screen_sets = call.before.screen_sets
    ELSE /\ OneAppended(bundle.screen_sets, call.before.screen_sets)
         /\ IsLabelSet(bundle.screen_sets[Len(bundle.screen_sets)], call.arg)
         /\ bundle.world_set = call.before.world_set

\* C14 as claimed: after add_label with attach_to_map = true the label is in the
\* world set and the screen sets are as before; with attach_to_map = false the
\* label is in a new entry at the end of the screen sets and the world set is
\* as before.
C14_LabelRouting == Called("add_label") => LabelRouted

\* A screen set can be built from the label of the call's argument.
LabelBuilds(arg) ==
    NewFromLabel(arg.position, arg.text, "plain", <<0, 0>>) # Nothing

\* C14 as amended: the same, except that with attach_to_map = false a label from
\* which no screen set can be built (new_from_label returns None) leaves the
\* whole bundle as it was.
C14_LabelRoutingWhenBuilt ==
    Called("add_label") =>
        IF call.arg.attach \/ LabelBuilds(call.arg)
        THEN LabelRouted
        ELSE bundle = call.before

\* C14 witness: a label not attached to the map became a new last screen set
\* behind an older one.
C14_Witness ==
    /\ Called("add_label")
    /\ ~call.arg.attach
    /\ call.before.screen_sets # <<>>
    /\ OneAppended(bundle.screen_sets, call.before.screen_sets)
    /\ IsLabelSet(bundle.screen_sets[Len(bundle.screen_sets)], call.arg)


WorldOnlyOps ==
    {"add_point", "add_line", "add_polygon", "add_image", "add_image_owned"}

\* C15: after add_point, add_line, add_polygon, add_image or add_image_owned the
\* sequence of screen sets is the one before the call, entry for entry, and the
\* submission went to the world set.
C15_WorldOnly ==
    call.op \in WorldOnlyOps =>
        /\ bundle.screen_sets = call.before.screen_sets
        /\ bundle.world_set # call.before.world_set

\* C15 witness: a point was added to a bundle that holds screen sets.
C15_Witness ==
    /\ Called("add_point")
    /\ Len(call.before.screen_sets) >= 1
    /\ OneAppended(bundle.world_set.points, call.before.world_set.points)


\* C16: an add_marker call from which a screen set is built (new_from_marker
\* returns Some) adds exactly one entry, at the end of the screen sets, anchored
\* at the marker's position, and leaves the world set as it was; a call from
\* which none is built (None) leaves the whole bundle as it was.
C16_MarkerAppendsOne ==
    Called("add_marker") =>
        IF NewFromMarker(call.arg.position, call.arg.style) # Nothing
        THEN /\ OneAppended(bundle.screen_sets, call.before.screen_sets)
             /\ bundle.screen_sets[Len(bundle.screen_sets)].anchor
                    = call.arg.position
             /\ bundle.world_set = call.before.world_set
        ELSE bundle = call.before

\* C16 witness: a marker became the last screen set behind an older one.
C16_Witness ==
    /\ Called("add_marker")
    /\ call.before.screen_sets # <<>>
    /\ OneAppended(bundle.screen_sets, call.before.screen_sets)
    /\ bundle.screen_sets[Len(bundle.screen_sets)].content[1] = "marker"

\* The entries the last call added to the sequence now, which was before.
Added(now, before) == SubSeq(now, Len(before) + 1, Len(now))

\* C17: ImagePointSymbol::render on a geometry of N points (a single point:
\* N = 1) adds N screen sets, one anchored at each point in the order of the
\* points; CirclePointSymbol::render adds N entries to the points of the world
\* set, one per point in order; the N points never give one entry for all.
C17_OneEntryPerPoint ==
    /\ (Called("image_render") /\ call.arg.kind \in {"Point", "MultiPoint"}) =>
           LET new == Added(bundle.screen_sets, call.before.screen_sets)
           IN /\ SubSeq(bundle.screen_sets, 1, Len(call.before.screen_sets))
                     = call.before.screen_sets
              /\ Len(new) = Len(call.arg.points)
              /\ \A i \in 1..Len(new) : new[i].anchor = call.arg.points[i]
    /\ (Called("circle_render") /\ call.arg.kind \in {"Point", "MultiPoint"}) =>
           LET new == Added(bundle.world_set.points,
                            call.before.world_set.points)
           IN /\ SubSeq(bundle.world_set.points, 1,
                        Len(call.before.world_set.points))
                     = call.before.world_set.points
              /\ Len(new) = Len(call.arg.points)
              /\ \A i \in 1..Len(new) : new[i][1] = call.arg.points[i]

\* C17 witness: the image symbol rendered a multi-point of three points, two of
\* them equal, into three new screen sets.
C17_Witness ==
    /\ Called("image_render")
    /\ call.arg = GeomMulti
    /\ Len(bundle.screen_sets) = Len(call.before.screen_sets) + 3
    /\ call.before.screen_sets # <<>>


\* s begins with all of t, in the order of t.
IsPrefix(t, s) == Len(t) <= Len(s) /\ SubSeq(s, 1, Len(t)) = t

\* Everything b1 holds, b2 holds at the same place.
Retains(b1, b2) ==
    /\ IsPrefix(b1.screen_sets, b2.screen_sets)
    /\ IsPrefix(b1.world_set.points, b2.world_set.points)
    /\ IsPrefix(b1.world_set.lines, b2.world_set.lines)
    /\ IsPrefix(b1.world_set.polygons, b2.world_set.polygons)
    /\ IsPrefix(b1.world_set.images, b2.world_set.images)
    /\ IsPrefix(b1.world_set.labels, b2.world_set.labels)

\* The step is a call that repeats the call before it, argument for argument.
RepeatsLastCall ==
    /\ call'.n = call.n + 1
    /\ call.op # None
    /\ call'.op = call.op
    /\ call'.arg = call.arg

C19_FinalizedIsFrozen ==
    [][/\ finalized \in BOOLEAN
       /\ (finalized /\ finalized') => bundle' = bundle
       /\ (finalized /\ ~finalized') => bundle' = EmptyBundle]_vars

\* C19 witness: a bundle that holds entries was handed off while its callers
\* still had calls to make.
C19_Witness ==
    /\ finalized
    /\ bundle.screen_sets # <<>>
    /\ bundle.world_set.points # <<>>
    /\ call.n < MaxAdds

\* ------------------------------------------------------ loader, write-back

\* Number of cache.insert calls the load tk has made.
InsertsOf(tk) ==
    Cardinality({i \in 1..Len(tk.log) : tk.log[i][1] = "insert"})

\* The URL the load tk gave to load_bytes_from_url.
FetchedUrl(tk) ==
    tk.log[CHOOSE i \in 1..Len(tk.log) : tk.log[i][1] = "fetch"][2]

\* In this step load t calls cache.insert.
InsertsNow(t) == InsertsOf(task'[t]) > InsertsOf(task[t])

\* C20: a load calls cache.insert only in the step in which its fetch gave
\* bytes, with the URL it fetched as the key; the cache contents change only in
\* such a step, to hold the fetched bytes under that URL. The steps of a cache
\* hit, of an offline miss and of a failed fetch call no insert and leave the
\* cache as it is.
C20_WriteBackOnlyAfterFetch ==
    [][/\ \A t \in Tasks :
              InsertsNow(t) =>
                  /\ task[t].pc = "fetching"
                  /\ task'[t].fetched \in Payloads
                  /\ InsertsOf(task'[t]) = 1
                  /\ task'[t].log[Len(task[t].log) + 1]
                         = <<"insert", FetchedUrl(task[t])>>
       /\ cache' # cache =>
              \E t \in Tasks :
                  /\ InsertsNow(t)
                  /\ cache' = [cache EXCEPT !.store =
                                   StorePut(@, FetchedUrl(task[t]),
                                            task'[t].fetched)]]_vars

\* C20 witness: a load of the dynamic loader has written what it fetched into
\* a cache that already held an entry under another URL.
C20_Witness ==
    \E t \in Tasks :
        /\ Done(t)
        /\ task[t].ins = "Ok"
        /\ <<task[t].url, task[t].fetched>> \in cache.store
        /\ \E e \in cache.store : e[1] # task[t].url


\* ------------------------------------------- loader, undecodable payloads

\* In this step load t writes back a payload that does not decode and returns.
BadWriteBackStep(t) ==
    /\ task[t].pc = "fetching"
    /\ task'[t].pc = "done"
    /\ task'[t].ins = "Ok"
    /\ Decode(task'[t].fetched) = "err"

\* The write-back of a payload that does not decode: the load returns Decoding
\* and the cache holds the payload under the load's URL.
BadPayloadWrittenBack ==
    \A t \in Tasks :
        BadWriteBackStep(t) =>
            /\ task'[t].result = Err("Decoding")
            /\ <<task[t].url, task'[t].fetched>> \in cache'.store

\* The load tk has returned Decoding without a call of load_bytes_from_url.
DecodingFromCache(tk) ==
    /\ tk.result = Err("Decoding")
    /\ \A i \in 1..Len(tk.log) : tk.log[i][1] # "fetch"

MutLockOf == IF mut.op = "update_url_template" THEN tmplLock ELSE paramsLock

\* The read guards load t holds.
GuardsOf(t) ==
    {l \in {"template", "parameters"} :
         t \in (IF l = "template" THEN tmplLock ELSE paramsLock).readers}

\* The write guards the mutator holds.
WriteGuards ==
    {l \in {"template", "parameters"} :
         (IF l = "template" THEN tmplLock ELSE paramsLock).writer}

\* Some call is at a lock: it holds a guard or waits for one.
AtLock ==
    \/ \E t \in Tasks : task[t].pc \in {"gen_params", "gen_build"}
    \/ mut.pc \in {"waiting", "locked", "written"}

\* Some call at a lock can take its next step, even when RwLock::read makes a
\* new reader queue behind a writer that waits for the same lock.
LockStepEnabled ==
    \/ \E t \in Tasks : task[t].pc = "gen_build"
    \/ \E t \in Tasks :
           /\ task[t].pc = "gen_params"
           /\ CanRead(paramsLock)
           /\ ~(mut.pc = "waiting" /\ mut.op # "update_url_template")
    \/ mut.pc = "waiting" /\ CanWrite(MutLockOf)
    \/ mut.pc \in {"locked", "written"}

\* C22: generate_url holds the template and the parameter read guard together
\* while it builds the URL and holds neither once load is at the cache lookup
\* or the fetch; a mutator holds exactly one write guard, the one of the field
\* it writes. So whenever a call is at a lock some call at a lock can step (no
\* deadlock), a mutator that waits is only ever waiting for loads that are
\* inside generate_url, never for one that is fetching, and a load whose
\* configuration was changed during its fetch has used the URL of its own
\* snapshot throughout.
C22_LockDiscipline ==
    /\ \A t \in Tasks :
           /\ task[t].pc = "gen_build" =>
                  GuardsOf(t) = {"template", "parameters"}
           /\ task[t].pc = "gen_params" => GuardsOf(t) = {"template"}
           /\ task[t].pc \in {"idle", "load_raw", "fetching", "done"} =>
                  GuardsOf(t) = {}
           /\ (kind = "dyn" /\ task[t].pc = "done" /\ task[t].cfgMoved) =>
                  /\ task[t].url = GenerateUrl(task[t].tmplSnap,
                                               task[t].paramsSnap, task[t].idx)
                  /\ \A i \in 1..Len(task[t].log) :
                         task[t].log[i][2] = task[t].url
    /\ mut.pc \in {"locked", "written"} =>
           WriteGuards = {IF mut.op = "update_url_template"
                          THEN "template" ELSE "parameters"}
    /\ mut.pc \in {"idle", "waiting"} => WriteGuards = {}
    /\ AtLock => LockStepEnabled
    /\ mut.pc = "waiting" =>
           \A t \in MutLockOf.readers :
               task[t].pc \in {"gen_params", "gen_build"}

\* C22 witness: a mutator has taken its write lock and written while a load
\* whose URL was generated before is suspended on its fetch.
C22_Witness ==
    \E t \in Tasks :
        /\ task[t].pc = "fetching"
        /\ mut.pc = "written"
        /\ <<url_template, parameters>> # <<task[t].tmplSnap, task[t].paramsSnap>>


\* ------------------------------------------ loader, one configuration per URL

\* Load t is inside generate_url and has taken the template guard.
InGenerateUrl(t) == task[t].pc \in {"gen_params", "gen_build"}

\* In this step generate_url of load t returns.
GenerateUrlReturns(t) == task[t].pc = "gen_build" /\ task'[t].pc = "load_raw"

\* C23: from the moment generate_url has taken the template guard no step
\* changes the template, and from the moment it has also taken the parameter
\* guard no step changes the parameters, until it returns; the URL it returns
\* is the one built from the template and the parameters of the loader at the
\* instant of the return, both of them left by completed mutator calls. So the
\* template it used when the call began is still the loader's when the
\* parameters are read, whatever the mutators did in between.
C23_OneConfiguration ==
    [][\A t \in Tasks :
           /\ InGenerateUrl(t) => url_template' = url_template
           /\ task[t].pc = "gen_build" => parameters' = parameters
           /\ GenerateUrlReturns(t) =>
                  /\ task'[t].url = GenerateUrl(url_template, parameters,
                                                task[t].idx)
                  /\ url_template = task[t].cfgAtBegin[1]
                  /\ url_template = tmplCommitted
                  /\ parameters = paramsCommitted]_vars

\* C23 witness: between the two lock acquisitions of generate_url a mutator
\* replaced the parameters; the URL returned is the one of the template with
\* the new parameters, and differs from the one of the configuration the call
\* began with.
C23_Witness ==
    \E t \in Tasks :
        /\ kind = "dyn"
        /\ task[t].pc = "load_raw"
        /\ task[t].paramsSnap # task[t].cfgAtBegin[2]
        /\ task[t].url = GenerateUrl(task[t].cfgAtBegin[1], task[t].paramsSnap,
                                     task[t].idx)
        /\ task[t].url # GenerateUrl(task[t].cfgAtBegin[1],
                                     task[t].cfgAtBegin[2], task[t].idx)


\* --------------------------------------- static and dynamic loader, one contract

\* What load returns, as a function of what the cache gave, the offline flag and
\* what the platform fetch gave; the kind of loader is no argument of it.
ContractResult(got, offline, fetched) ==
    IF got # None
    THEN IF Decode(got) = "ok" THEN Ok(got) ELSE Err("Decoding")
    ELSE IF offline THEN Err("DoesNotExist")
    ELSE Owed(fetched)

\* The calls load makes to the cache, the platform and the decoder, in order.
ContractCalls(url, cached, got, offline, fetched) ==
    (IF cached THEN << <<"get", url>> >> ELSE <<>>)
        \o (IF got # None THEN << <<"decode", url>> >>
            ELSE IF offline THEN <<>>
            ELSE << <<"fetch", url>> >>
                     \o (IF fetched \in Payloads
                         THEN (IF cached THEN << <<"insert", url>> >> ELSE <<>>)
                                  \o << <<"decode", url>> >>
                         ELSE <<>>))

\* The cache contents load leaves, from the contents it found.
ContractStore(store, url, cached, got, offline, fetched, insOk) ==
    IF cached /\ got = None /\ ~offline /\ fetched \in Payloads /\ insOk
    THEN StorePut(store, url, fetched)
    ELSE store

\* Load t is one of a WebVtLoader, or one of a DynamicUrlVtLoader that built its
\* URL from the template and the parameters it was constructed with.
AsConstructed(tk) ==
    kind = "web" \/ (tk.tmplSnap = T0 /\ tk.paramsSnap = <<>>)

\* In this step load t returns.
LoadReturns(t) == task[t].pc # "done" /\ task'[t].pc = "done"

\* C24: a load of a WebVtLoader and a load of a DynamicUrlVtLoader with the
\* configuration it was constructed with ask for the URL url_source gives for
\* the index, and return the same function of the cache answer, the offline
\* flag and the fetch outcome, after the same calls (so the same number of
\* fetches), leaving the same cache contents; none of the three depends on the
\* kind of loader.
C24_SameContract ==
    [][\A t \in Tasks :
           (LoadReturns(t) /\ AsConstructed(task'[t])) =>
               LET tk == task'[t]
               IN /\ tk.url = UrlSource(tk.idx)
                  /\ tk.result =
                         ContractResult(tk.got, offline_mode, tk.fetched)
                  /\ tk.log =
                         ContractCalls(UrlSource(tk.idx), cache.on, tk.got,
                                       offline_mode, tk.fetched)
                  /\ CountOp(t, "fetch")' =
                         (IF tk.got = None /\ ~offline_mode THEN 1 ELSE 0)
                  /\ cache'.store =
                         ContractStore(cache.store, UrlSource(tk.idx),
                                       cache.on, tk.got, offline_mode,
                                       tk.fetched, tk.ins = "Ok")
                  /\ cache'.on = cache.on]_vars

\* C24 witness: the only call made to a DynamicUrlVtLoader was a load; it
\* missed the cache, fetched, wrote back and returned the tile, and the cache
\* holds the payload under the URL url_source gives.
C24_Witness ==
    \E t \in Tasks :
        /\ kind = "dyn" /\ apiCalls = 1
        /\ Done(t)
        /\ task[t].got = None /\ task[t].fetched = "pbf" /\ task[t].ins = "Ok"
        /\ task[t].result = Ok("pbf")
        /\ CountOp(t, "fetch") = 1
        /\ <<UrlSource(task[t].idx), "pbf">> \in cache.store


\* ------------------------------------------------------ text marker symbol

\* C25: TextMarkerSymbol::render on a geometry of N points (a single point:
\* N = 1) adds 2N entries to the points of the world set, for each point in
\* order the black background square and then the text label, both at that
\* point; it adds no screen set and touches nothing else of the world set; on a
\* geometry that is neither a point nor a multi-point it leaves the bundle as it
\* was.
C25_TextMarkerSubmissions ==
    Called("text_render") =>
        IF call.arg.kind \in {"Point", "MultiPoint"}
        THEN LET new == Added(bundle.world_set.points,
                              call.before.world_set.points)
                 pts == call.arg.points
             IN /\ IsPrefix(call.before.world_set.points,
                            bundle.world_set.points)
                /\ Len(new) = 2 * Len(pts)
                /\ \A i \in 1..Len(pts) :
                       /\ new[2 * i - 1][1] = pts[i]
                       /\ new[2 * i - 1][2].shape = "square"
                       /\ new[2 * i - 1][2].color = "BLACK"
                       /\ new[2 * i][1] = pts[i]
                       /\ new[2 * i][2].shape = "label"
                /\ bundle.screen_sets = call.before.screen_sets
                /\ [bundle.world_set EXCEPT
                        !.points = call.before.world_set.points]
                       = call.before.world_set
        ELSE bundle = call.before

\* C25 witness: the text marker symbol rendered a multi-point of three points
\* into a bundle that already held points and screen sets, and six entries were
\* added to the points of the world set.
C25_Witness ==
    /\ Called("text_render")
    /\ call.arg = GeomMulti
    /\ call.before.world_set.points # <<>>
    /\ call.before.screen_sets # <<>>
    /\ Len(bundle.world_set.points) = Len(call.before.world_set.points) + 6

====
